---- MODULE Spec2Model ----
(***************************************************************************)
(* The trade-balance dashboard script src/app.py as a state machine.       *)
(*                                                                         *)
(* The script is a Streamlit page: the framework executes it from the top  *)
(* to the bottom once when the session opens and once more after every     *)
(* widget interaction.  One action of the model is one such execution.     *)
(* The state holds the two Parquet files (the external input, fixed for    *)
(* the session), the widgets' values, and the value of the script's        *)
(* variables when the execution ended.                                     *)
(*                                                                         *)
(* pandas values are modelled as follows.  A data frame is a record        *)
(* [cols, rows]: the set of its column names and the sequence of its rows. *)
(* A missing value (NaN/None) of a text column is the value NA.  VL_FOB    *)
(* and KG_LIQUIDO are natural numbers (the data model's non-negative       *)
(* amounts); a quotient is an exact fraction [n, d], so floating-point     *)
(* rounding is outside the model.                                          *)
(***************************************************************************)
EXTENDS Integers, Sequences, FiniteSets

\* ------------------------------------------------------------------ bounds

\* The two files of a session hold at most MaxRows records together.
MaxRows == 3
\* Reads of the Parquet files are counted up to MaxReads ("MaxReads or more").
MaxReads == 2

\* ------------------------------------------------- constants of the script

SliderMin == 0
SliderMax == 50
SliderDefault == 5
TopN == 10

\* ----------------------------------------------------------------- values

NA == "<NA>"

\* The order Python and pandas sort text in (code points), on the texts of
\* the model; a missing key sorts last (groupby, pivot_table).
StrOrder == <<"01", "02", "AR", "CN", "PR", "SC", "a", "b">>

StrPos(s) == CHOOSE i \in 1..Len(StrOrder) : StrOrder[i] = s

Min(a, b) == IF a <= b THEN a ELSE b

\* Let(e, LAMBDA x : b) is b with x standing for the value of e, which is
\* computed once.
Let(e, B(_)) == CHOOSE r \in {B(x) : x \in {e}} : TRUE

Range(s) == {s[i] : i \in DOMAIN s}

\* Python's sorted() of a set of integers.
SortedInts(S) ==
    [i \in 1..Cardinality(S) |->
        CHOOSE x \in S : Cardinality({y \in S : y < x}) = i - 1]

\* A list's last k elements: lst[-k:].
LastK(lst, k) ==
    IF Len(lst) <= k THEN lst ELSE SubSeq(lst, Len(lst) - k + 1, Len(lst))

\* --------------------------------------------------------------- fractions

Frac(n, d) == [n |-> n, d |-> d]

FracZero == Frac(0, 1)

\* a / b of two numbers, b > 0.
Quot(a, b) == Frac(a, b)

FracSub(x, y) == Frac(x.n * y.d - y.n * x.d, x.d * y.d)

\* x / y, y > 0.
FracDiv(x, y) == Frac(x.n * y.d, x.d * y.n)

FracTimes(x, k) == Frac(x.n * k, x.d)

FracPos(x) == x.n > 0

FracEq(x, y) == x.n * y.d = y.n * x.d

\* ------------------------------------------------------------- data frames

DataCols ==
    {"CO_ANO", "CO_NCM", "NO_NCM_POR", "NO_PAIS", "SG_UF_NCM", "VL_FOB",
     "KG_LIQUIDO"}

\* The first column's name as a CSV export with a byte-order mark leaves it.
BomCol == "<BOM>CO_ANO"

\* pd.DataFrame(): no columns, no rows.
NoFrame == [cols |-> {}, rows |-> <<>>]

\* df.empty: an axis of length 0.
Empty(df) == df.cols = {} \/ Len(df.rows) = 0

\* col.replace('<BOM>', '') of a column name.
CleanCol(col) == IF col = BomCol THEN "CO_ANO" ELSE col

\* A filter that drops the rows of the frame itself.
BoolIndexInPlace(df, mask) ==
    LET Kept(i) == mask[i]
        idx == SelectSeq([i \in 1..Len(df.rows) |-> i], Kept)
        kept == [cols |-> df.cols, rows |-> [k \in 1..Len(idx) |-> df.rows[idx[k]]]]
    IN  [df |-> kept, view |-> kept]

\* df[mask] (and df[mask].copy(), df.copy()): a new frame of the rows kept;
\* "df" is the frame indexed as the statement leaves it, "view" the new one.
BoolIndex(df, mask) ==
    [df   |-> df,
     view |-> [cols |-> df.cols,
               rows |-> LET Kept(i) == mask[i]
                            idx == SelectSeq([i \in 1..Len(df.rows) |-> i], Kept)
                        IN  [k \in 1..Len(idx) |-> df.rows[idx[k]]]]]

\* series.isin(values); a missing value matches only a missing value.
IsIn(v, values) == v \in values

\* df[col].sum() of a column of numbers.
SumCol(rows, col) ==
    LET upto[i \in 0..Len(rows)] ==
            IF i = 0 THEN 0 ELSE upto[i - 1] + rows[i][col]
    IN  upto[Len(rows)]

\* The rank of a text in the sort order, a missing one last.
Rank(s) == IF s = NA THEN Len(StrOrder) + 1 ELSE StrPos(s)

RankBase == Len(StrOrder) + 2

\* The keys of a groupby in the order of its result (sort=True).
OrderKeys(keys, RankOf(_)) ==
    LET ranks == SortedInts({RankOf(k) : k \in keys})
    IN  [i \in 1..Len(ranks) |-> CHOOSE k \in keys : RankOf(k) = ranks[i]]

\* The rows of a group.
GroupRows(rows, KeyOf(_), k) ==
    LET InGroup(r) == KeyOf(r) = k IN SelectSeq(rows, InGroup)

\* frame.nlargest(n, column), keep='first', vals being the column: the n
\* rows of the largest values, largest first, the earlier row first among
\* equal values.
NLargest(n, rows, vals) ==
    LET Before(j, i) == vals[j] > vals[i] \/ (vals[j] = vals[i] /\ j < i)
        Place(i) == 1 + Cardinality({j \in DOMAIN vals : Before(j, i)})
    IN  [k \in 1..Min(n, Len(rows)) |->
            rows[CHOOSE i \in DOMAIN vals : Place(i) = k]]

\* ---------------------------------------------------------------- loading

\* load_data() whose st.stop() does not end the execution: the two empty
\* frames of its last line are returned.
LoadDataWithoutStop(expf, impf) ==
    IF expf.found /\ impf.found
    THEN [stopped |-> FALSE,
          df_exp  |-> [cols |-> {CleanCol(c) : c \in expf.cols}, rows |-> expf.rows],
          df_imp  |-> [cols |-> {CleanCol(c) : c \in impf.cols}, rows |-> impf.rows]]
    ELSE [stopped |-> FALSE, df_exp |-> NoFrame, df_imp |-> NoFrame]

\* load_data(): both files read and the column names cleaned, or the error
\* reported and the script stopped when a file is missing.
LoadData(expf, impf) ==
    IF expf.found /\ impf.found
    THEN [stopped |-> FALSE,
          df_exp  |-> [cols |-> {CleanCol(c) : c \in expf.cols}, rows |-> expf.rows],
          df_imp  |-> [cols |-> {CleanCol(c) : c \in impf.cols}, rows |-> impf.rows]]
    ELSE [stopped |-> TRUE, df_exp |-> NoFrame, df_imp |-> NoFrame]

\* anos_validos: the years of the two tables together, ascending.
AnosValidos(df_exp, df_imp) ==
    IF ~Empty(df_exp) /\ ~Empty(df_imp)
    THEN SortedInts({r.CO_ANO : r \in Range(df_exp.rows \o df_imp.rows)})
    ELSE IF ~Empty(df_exp) THEN SortedInts({r.CO_ANO : r \in Range(df_exp.rows)})
    ELSE IF ~Empty(df_imp) THEN SortedInts({r.CO_ANO : r \in Range(df_imp.rows)})
    ELSE <<>>

\* ----------------------------------------------------------- the UF filter

\* all_ufs: the options of the multiselect (the named UFs of the exports).
AllUfs(df_exp) ==
    IF ~Empty(df_exp)
    THEN {r.SG_UF_NCM : r \in Range(df_exp.rows)} \ {NA}
    ELSE {}

DefaultUfs(all_ufs) == IF "SC" \in all_ufs THEN {"SC"} ELSE all_ufs

\* selected_ufs: what the multiselect returns (its default until the user
\* chooses), or [] without export data, where no multiselect exists.
SelectedUfs(df_exp, ms) ==
    IF ~Empty(df_exp)
    THEN IF ms.chosen THEN ms.ufs ELSE DefaultUfs(AllUfs(df_exp))
    ELSE {}

\* The filter without its branch for no selection: isin([]) keeps no row.
FilterUFWithoutElse(df, selected_ufs) ==
    BoolIndex(df, [i \in 1..Len(df.rows) |->
                      IsIn(df.rows[i].SG_UF_NCM, selected_ufs)])

\* df_exp_filtered_sc / df_imp_filtered_sc, and df_exp_scope / df_imp_scope:
\* the rows of the selected UFs, every row without a selection.
FilterUF(df, selected_ufs) ==
    IF selected_ufs # {}
    THEN BoolIndex(df, [i \in 1..Len(df.rows) |->
                            IsIn(df.rows[i].SG_UF_NCM, selected_ufs)])
    ELSE BoolIndex(df, [i \in 1..Len(df.rows) |-> TRUE])

FilteredSc(df, selected_ufs) ==
    IF ~Empty(df) THEN FilterUF(df, selected_ufs)
    ELSE [df |-> df, view |-> NoFrame]

\* total_exp / total_imp
Total(df_filtered) ==
    IF ~Empty(df_filtered) THEN SumCol(df_filtered.rows, "VL_FOB") ELSE 0

\* The balance with its terms exchanged.
BalancaComercialSwapped(total_exp, total_imp) == total_imp - total_exp

\* balanca_comercial
BalancaComercial(total_exp, total_imp) == total_exp - total_imp

\* ------------------------------------------------------- grouping and sums

ProductKey(r) == <<r.CO_NCM, r.NO_NCM_POR>>

ProductRank(k) == Rank(k[1]) * RankBase + Rank(k[2])

\* The grouping with groupby's default dropna=True: no group of a missing key.
GroupByProductDropna(rows) ==
    LET keys == OrderKeys({ProductKey(r) : r \in Range(rows)} \
                              {k \in {ProductKey(r) : r \in Range(rows)} :
                                  k[1] = NA \/ k[2] = NA},
                          ProductRank)
    IN  [i \in 1..Len(keys) |->
            [CO_NCM     |-> keys[i][1],
             NO_NCM_POR |-> keys[i][2],
             VL_FOB     |-> SumCol(GroupRows(rows, ProductKey, keys[i]), "VL_FOB"),
             KG_LIQUIDO |-> SumCol(GroupRows(rows, ProductKey, keys[i]), "KG_LIQUIDO")]]

\* groupby(['CO_NCM', 'NO_NCM_POR'], dropna=False).agg(sum, sum)
GroupByProduct(rows) ==
    LET keys == OrderKeys({ProductKey(r) : r \in Range(rows)}, ProductRank)
    IN  [i \in 1..Len(keys) |->
            [CO_NCM     |-> keys[i][1],
             NO_NCM_POR |-> keys[i][2],
             VL_FOB     |-> SumCol(GroupRows(rows, ProductKey, keys[i]), "VL_FOB"),
             KG_LIQUIDO |-> SumCol(GroupRows(rows, ProductKey, keys[i]), "KG_LIQUIDO")]]

PaisKey(r) == r.NO_PAIS

\* groupby('NO_PAIS', dropna=False).agg(sum, sum).reset_index()
GroupByPais(rows) ==
    LET keys == OrderKeys({PaisKey(r) : r \in Range(rows)}, Rank)
    IN  [i \in 1..Len(keys) |->
            [NO_PAIS    |-> keys[i],
             VL_FOB     |-> SumCol(GroupRows(rows, PaisKey, keys[i]), "VL_FOB"),
             KG_LIQUIDO |-> SumCol(GroupRows(rows, PaisKey, keys[i]), "KG_LIQUIDO")]]

AnoPaisKey(r) == <<r.CO_ANO, r.NO_PAIS>>

AnoPaisRank(k) == k[1] * RankBase + Rank(k[2])

\* groupby(['CO_ANO', 'NO_PAIS'], dropna=False).agg(sum, sum).reset_index()
GroupByAnoPais(rows) ==
    LET keys == OrderKeys({AnoPaisKey(r) : r \in Range(rows)}, AnoPaisRank)
    IN  [i \in 1..Len(keys) |->
            [CO_ANO     |-> keys[i][1],
             NO_PAIS    |-> keys[i][2],
             VL_FOB     |-> SumCol(GroupRows(rows, AnoPaisKey, keys[i]), "VL_FOB"),
             KG_LIQUIDO |-> SumCol(GroupRows(rows, AnoPaisKey, keys[i]), "KG_LIQUIDO")]]

\* ------------------------------------------------------ the product charts

\* df_chart_exp / df_chart_imp: the n product groups of the largest summed
\* VL_FOB, or no chart.  (The column VL_FOB_FORMATADO added to the chart's
\* frame is read by nothing and is left out.)
ChartProducts(df_filtered, n) ==
    IF ~Empty(df_filtered) /\ n > 0
    THEN LET groups == GroupByProduct(df_filtered.rows)
         IN  [built |-> TRUE,
              rows  |-> NLargest(n, groups,
                                 [i \in 1..Len(groups) |-> groups[i].VL_FOB])]
    ELSE [built |-> FALSE, rows |-> <<>>]

\* top_exp_products / top_imp_products: the chart's distinct product names.
TopProducts(chart) ==
    IF chart.built THEN {chart.rows[i].NO_NCM_POR : i \in 1..Len(chart.rows)}
    ELSE {}

\* ------------------------------------------ treemaps of the top products

\* df_exp_filtered_products / df_imp_filtered_products: a KeyError when the
\* filtered frame has no column NO_NCM_POR.
FilteredProducts(df_filtered, top_products) ==
    IF "NO_NCM_POR" \notin df_filtered.cols
    THEN [raised |-> TRUE, view |-> NoFrame]
    ELSE [raised |-> FALSE,
          view   |-> BoolIndex(df_filtered,
                        [i \in 1..Len(df_filtered.rows) |->
                            IsIn(df_filtered.rows[i].NO_NCM_POR, top_products)]).view]

\* The share with its quotient upside down.
ParticipacaoInverted(vl_fob, total) == FracTimes(Quot(total, vl_fob), 100)

\* (VL_FOB / total) * 100
Participacao(vl_fob, total) == FracTimes(Quot(vl_fob, total), 100)

\* df_treemap_exp / df_treemap_imp with 'Participacao (%)', shown when the
\* products' total is positive.
Treemap(df_products) ==
    IF ~Empty(df_products)
    THEN LET total  == SumCol(df_products.rows, "VL_FOB")
             groups == GroupByPais(df_products.rows)
         IN  IF total > 0
             THEN [shown |-> TRUE, total |-> total,
                   rows  |-> [i \in 1..Len(groups) |->
                                [NO_PAIS      |-> groups[i].NO_PAIS,
                                 VL_FOB       |-> groups[i].VL_FOB,
                                 KG_LIQUIDO   |-> groups[i].KG_LIQUIDO,
                                 Participacao |-> Participacao(groups[i].VL_FOB, total)]]]
             ELSE [shown |-> FALSE, total |-> total, rows |-> <<>>]
    ELSE [shown |-> FALSE, total |-> 0, rows |-> <<>>]

\* df_exp_geral / df_imp_geral: the treemap of all products by country.
Geral(df_filtered) ==
    IF ~Empty(df_filtered)
    THEN [shown |-> TRUE, rows |-> GroupByPais(df_filtered.rows)]
    ELSE [shown |-> FALSE, rows |-> <<>>]

\* ------------------------------------------- the year-over-year top-10 table

\* anos_ref_exp / anos_ref_imp: the last two of the table's years, ascending.
AnosRef(df) ==
    LET anos_para_comparar ==
            IF ~Empty(df) THEN SortedInts({r.CO_ANO : r \in Range(df.rows)})
            ELSE <<>>
    IN  IF Len(anos_para_comparar) >= 2 THEN LastK(anos_para_comparar, 2)
        ELSE anos_para_comparar

\* pivot_table(index='NO_PAIS', columns='CO_ANO', values=[VL_FOB, KG_LIQUIDO])
\* .fillna(0): one row per named country, one pair of columns per year that
\* has a named country (pivot_table drops the missing keys); the mean of a
\* (year, country) cell is the one grouped sum, an absent cell is filled 0.
Pivot(grouped) ==
    LET Named(g) == g.NO_PAIS # NA
        named == SelectSeq(grouped, Named)
        years == {named[i].CO_ANO : i \in 1..Len(named)}
        paises == OrderKeys({named[i].NO_PAIS : i \in 1..Len(named)}, Rank)
        Cell(p, y, col) ==
            IF \E i \in 1..Len(named) : named[i].CO_ANO = y /\ named[i].NO_PAIS = p
            THEN (named[CHOOSE i \in 1..Len(named) :
                            named[i].CO_ANO = y /\ named[i].NO_PAIS = p])[col]
            ELSE 0
    IN  [years |-> years,
         rows  |-> [i \in 1..Len(paises) |->
                      [NO_PAIS    |-> paises[i],
                       VL_FOB     |-> [y \in years |-> Cell(paises[i], y, "VL_FOB")],
                       KG_LIQUIDO |-> [y \in years |-> Cell(paises[i], y, "KG_LIQUIDO")]]]]

\* The price without its test of the weight.
PrecoMedioUnguarded(vl_fob, kg_liquido) == Quot(vl_fob, kg_liquido)

\* 'Preco Medio <ano> (US$/Kg)' of a row
PrecoMedio(vl_fob, kg_liquido) ==
    IF kg_liquido > 0 THEN Quot(vl_fob, kg_liquido) ELSE FracZero

\* The variation without its test of the base price.
VarPrecoUnguarded(preco_atual, preco_base) ==
    FracTimes(FracDiv(FracSub(preco_atual, preco_base), preco_base), 100)

\* 'Var. Preco <ano_atual>/<ano_base> (%)' of a row
VarPreco(preco_atual, preco_base) ==
    IF FracPos(preco_base)
    THEN FracTimes(FracDiv(FracSub(preco_atual, preco_base), preco_base), 100)
    ELSE FracZero

\* 'Participacao (%)' of a row of the table
ParticipacaoTabela(vl_fob, total_fob_ultimo_ano) ==
    IF total_fob_ultimo_ano > 0 THEN Participacao(vl_fob, total_fob_ultimo_ano)
    ELSE FracZero

\* The years that get a price column: the reference years whose value and
\* weight columns the pivot has.
PricedYears(anos_ref, years) == Range(anos_ref) \cap years

\* Whether the variation column is made: two reference years, both priced.
HasVar(anos_ref, priced) ==
    Len(anos_ref) = 2 /\ anos_ref[1] \in priced /\ anos_ref[2] \in priced

\* A table that is not displayed.
TableNot(status, df, anos_ref) ==
    [status |-> status, df |-> df, anos_ref |-> anos_ref, priced |-> {},
     has_var |-> FALSE, rows |-> <<>>]

\* The pivot's rows with the columns the script adds: the price of every
\* priced year, the variation (only when has_var) and the share.
DerivedColumns(pivot, anos_ref) ==
    LET priced == PricedYears(anos_ref, pivot.years)
        has_var == HasVar(anos_ref, priced)
        ultimo_ano == anos_ref[Len(anos_ref)]
        has_ultimo == ultimo_ano \in pivot.years
        total_fob_ultimo_ano ==
            IF has_ultimo
            THEN SumCol([i \in 1..Len(pivot.rows) |->
                            [v |-> pivot.rows[i].VL_FOB[ultimo_ano]]], "v")
            ELSE 0
    IN  [i \in 1..Len(pivot.rows) |->
            [NO_PAIS      |-> pivot.rows[i].NO_PAIS,
             VL_FOB       |-> pivot.rows[i].VL_FOB,
             KG_LIQUIDO   |-> pivot.rows[i].KG_LIQUIDO,
             PrecoMedio   |-> [y \in priced |->
                                PrecoMedio(pivot.rows[i].VL_FOB[y],
                                           pivot.rows[i].KG_LIQUIDO[y])],
             Var          |-> IF has_var
                              THEN VarPreco(
                                     PrecoMedio(pivot.rows[i].VL_FOB[anos_ref[2]],
                                                pivot.rows[i].KG_LIQUIDO[anos_ref[2]]),
                                     PrecoMedio(pivot.rows[i].VL_FOB[anos_ref[1]],
                                                pivot.rows[i].KG_LIQUIDO[anos_ref[1]]))
                              ELSE FracZero,
             Participacao |-> IF has_ultimo
                              THEN ParticipacaoTabela(pivot.rows[i].VL_FOB[ultimo_ano],
                                                      total_fob_ultimo_ano)
                              ELSE FracZero]]

\* The table displayed: the TopN rows of the largest value of the last
\* reference year, under the displayed columns' names.
Displayed(df, full, pivot, anos_ref) ==
    LET ultimo_ano == anos_ref[Len(anos_ref)]
        priced == PricedYears(anos_ref, pivot.years)
    IN  Let(NLargest(TopN, full, [i \in 1..Len(full) |-> full[i].VL_FOB[ultimo_ano]]),
            LAMBDA top_10 :
        [status   |-> "displayed", df |-> df, anos_ref |-> anos_ref,
         priced   |-> priced, has_var |-> HasVar(anos_ref, priced),
         rows     |-> [i \in 1..Len(top_10) |->
                        [Pais         |-> top_10[i].NO_PAIS,
                         ValorFOB     |-> top_10[i].VL_FOB[ultimo_ano],
                         TotalKg      |-> top_10[i].KG_LIQUIDO[ultimo_ano],
                         Participacao |-> top_10[i].Participacao,
                         PrecoMedio   |-> top_10[i].PrecoMedio,
                         Var          |-> top_10[i].Var]]])

\* The top-10 table of a flow.  status is "no_data" (the table is empty),
\* "no_ref_data" (no filtered record of the reference years), "KeyError"
\* (nlargest on a column the pivot lacks) or "displayed".  A row's Var counts
\* only when has_var holds.  df is the loaded table as the statements leave it.
\* (CO_ANO is never missing in the tables of the model, so a table with rows
\* has a reference year, and the script's branches for none are not taken.)
Top10Table(df, selected_ufs, anos_ref) ==
    IF Empty(df) THEN TableNot("no_data", df, anos_ref)
    ELSE
    Let(FilterUF(df, selected_ufs), LAMBDA scope :
    Let(BoolIndex(scope.view,
                  [i \in 1..Len(scope.view.rows) |->
                      IsIn(scope.view.rows[i].CO_ANO, Range(anos_ref))]).view,
        LAMBDA agg :
    IF Empty(agg) THEN TableNot("no_ref_data", scope.df, anos_ref)
    ELSE
    Let(Pivot(GroupByAnoPais(agg.rows)), LAMBDA pivot :
    Let(DerivedColumns(pivot, anos_ref), LAMBDA full :
    IF anos_ref[Len(anos_ref)] \notin pivot.years
    THEN TableNot("KeyError", scope.df, anos_ref)
    ELSE Displayed(scope.df, full, pivot, anos_ref)))))

\* -------------------------------------------------------------- the script

\* The script's variables before its first execution.
NoChart == [built |-> FALSE, rows |-> <<>>]
NoTreemap == [shown |-> FALSE, total |-> 0, rows |-> <<>>]
NoGeral == [shown |-> FALSE, rows |-> <<>>]
NoTable == TableNot("none", NoFrame, <<>>)

NotRun ==
    [status |-> "new", rendered |-> {}, df_exp |-> NoFrame, df_imp |-> NoFrame,
     loaded_exp |-> NoFrame, loaded_imp |-> NoFrame,
     anos_validos |-> <<>>, all_ufs |-> {}, selected_ufs |-> {},
     df_exp_filtered_sc |-> NoFrame, df_imp_filtered_sc |-> NoFrame,
     cards |-> FALSE, total_exp |-> 0, total_imp |-> 0, balanca_comercial |-> 0,
     df_chart_exp |-> NoChart, df_chart_imp |-> NoChart,
     top_exp_products |-> {}, top_imp_products |-> {},
     df_treemap_exp |-> NoTreemap, df_treemap_imp |-> NoTreemap,
     top_10_exp |-> NoTable, top_10_imp |-> NoTable,
     df_exp_geral |-> NoGeral, df_imp_geral |-> NoGeral]

\* The execution up to the product charts (lines 43-208): the years, the UF
\* filter, the cards and the charts.
UptoCharts(loaded, ms, num_products_exp, num_products_imp) ==
    Let(SelectedUfs(loaded.df_exp, ms), LAMBDA selected_ufs :
    Let(FilteredSc(loaded.df_exp, selected_ufs), LAMBDA filtered_exp :
    Let(FilteredSc(loaded.df_imp, selected_ufs), LAMBDA filtered_imp :
    Let(ChartProducts(filtered_exp.view, num_products_exp), LAMBDA chart_exp :
    Let(ChartProducts(filtered_imp.view, num_products_imp), LAMBDA chart_imp :
    Let(Total(filtered_exp.view), LAMBDA total_exp :
    Let(Total(filtered_imp.view), LAMBDA total_imp :
        [NotRun EXCEPT
            !.rendered = (IF ~Empty(loaded.df_exp) THEN {"multiselect"} ELSE {})
                         \cup {"slider_exp", "slider_imp"},
            !.loaded_exp = loaded.df_exp, !.loaded_imp = loaded.df_imp,
            !.df_exp = filtered_exp.df, !.df_imp = filtered_imp.df,
            !.anos_validos = AnosValidos(loaded.df_exp, loaded.df_imp),
            !.all_ufs = AllUfs(loaded.df_exp),
            !.selected_ufs = selected_ufs,
            !.df_exp_filtered_sc = filtered_exp.view,
            !.df_imp_filtered_sc = filtered_imp.view,
            !.cards = TRUE,
            !.total_exp = total_exp, !.total_imp = total_imp,
            !.balanca_comercial = BalancaComercial(total_exp, total_imp),
            !.df_chart_exp = chart_exp, !.df_chart_imp = chart_imp,
            !.top_exp_products = TopProducts(chart_exp),
            !.top_imp_products = TopProducts(chart_imp)])))))))

\* The execution from the treemaps of the top products on (lines 210-562),
\* r being the variables as the charts left them.
FromTreemaps(r) ==
    Let(FilteredProducts(r.df_exp_filtered_sc, r.top_exp_products), LAMBDA products_exp :
    Let(FilteredProducts(r.df_imp_filtered_sc, r.top_imp_products), LAMBDA products_imp :
    IF products_exp.raised \/ products_imp.raised
    THEN [r EXCEPT !.status = "error"]
    ELSE
    Let(Top10Table(r.df_exp, r.selected_ufs, AnosRef(r.df_exp)), LAMBDA top_10_exp :
    Let([r EXCEPT !.df_treemap_exp = Treemap(products_exp.view),
                  !.df_treemap_imp = Treemap(products_imp.view),
                  !.top_10_exp = top_10_exp,
                  !.df_exp = top_10_exp.df], LAMBDA upto_exp :
    IF top_10_exp.status = "KeyError"
    THEN [upto_exp EXCEPT !.status = "error"]
    ELSE
    Let(Top10Table(r.df_imp, r.selected_ufs, AnosRef(r.df_imp)), LAMBDA top_10_imp :
    Let([upto_exp EXCEPT !.top_10_imp = top_10_imp,
                         !.df_imp = top_10_imp.df], LAMBDA upto_imp :
    IF top_10_imp.status = "KeyError"
    THEN [upto_imp EXCEPT !.status = "error"]
    ELSE [upto_imp EXCEPT !.status = "done",
                          !.df_exp_geral = Geral(r.df_exp_filtered_sc),
                          !.df_imp_geral = Geral(r.df_imp_filtered_sc)]))))))

\* One execution of the script, top to bottom, on the two files, the
\* multiselect's state ms and the two sliders' values.  status is "stopped"
\* (st.stop() in load_data), "error" (an exception reached the outer handler,
\* which reports it) or "done"; what an execution did not reach stays as in
\* NotRun.  rendered holds the widgets the execution put on the page.
\* loaded_exp and loaded_imp are the tables as load_data returned them,
\* df_exp and df_imp the same variables when the execution ended.
Script(expf, impf, ms, num_products_exp, num_products_imp) ==
    Let(LoadData(expf, impf), LAMBDA loaded :
    IF loaded.stopped THEN [NotRun EXCEPT !.status = "stopped"]
    ELSE IF (~Empty(loaded.df_exp) /\ "CO_ANO" \notin loaded.df_exp.cols)
            \/ (~Empty(loaded.df_imp) /\ "CO_ANO" \notin loaded.df_imp.cols)
    THEN [NotRun EXCEPT !.status = "error",
                        !.loaded_exp = loaded.df_exp, !.loaded_imp = loaded.df_imp,
                        !.df_exp = loaded.df_exp, !.df_imp = loaded.df_imp]
    ELSE FromTreemaps(UptoCharts(loaded, ms, num_products_exp, num_products_imp)))

\* ------------------------------------------------------------------- state

VARIABLES
    exp_file,      \* parquet_files/EXP_TOTAL.parquet: [found, cols, rows]
    imp_file,      \* parquet_files/IMP_TOTAL.parquet
    ms_ufs,        \* the UF multiselect: [chosen, ufs]
    slider_exp,    \* the slider 'slider_exp'
    slider_imp,    \* the slider 'slider_imp'
    reads,         \* how many times load_data has read the files
    run            \* the script's variables when its last execution ended

vars == <<exp_file, imp_file, ms_ufs, slider_exp, slider_imp, reads, run>>

\* ------------------------------------------------------------ the inputs

Row(ano, ncm, nome, pais, uf, vl, kg) ==
    [CO_ANO |-> ano, CO_NCM |-> ncm, NO_NCM_POR |-> nome, NO_PAIS |-> pais,
     SG_UF_NCM |-> uf, VL_FOB |-> vl, KG_LIQUIDO |-> kg]

Anos == {2023, 2024}

\* Records that differ in year and UF (a UF may be missing); the value
\* differs with the year.
RowsUF ==
    {Row(a, "01", "a", "AR", u, IF a = 2023 THEN 2 ELSE 3, 1) :
        a \in Anos, u \in {"SC", "PR", NA}}

\* Records that differ in year, country and amounts: two prices, a weight of
\* 0 in the later year, and a record of the earlier year of another UF.
RowsPrice ==
    {Row(2023, "01", "a", "AR", "SC", 3, 2),
     Row(2023, "01", "a", "AR", "SC", 2, 1),
     Row(2023, "01", "a", "AR", "PR", 2, 1),
     Row(2024, "01", "a", "AR", "SC", 2, 1),
     Row(2024, "01", "a", "CN", "SC", 1, 0)}

\* Records that differ in year and country (a country's name may be
\* missing); the value differs with the country.
RowsPais ==
    {Row(a, "01", "a", p[1], "SC", p[2], 1) :
        a \in Anos, p \in {<<"AR", 3>>, <<"CN", 1>>, <<NA, 2>>}}

\* Records that differ in product (a code or a name may be missing, a name
\* may belong to two codes) and, for two products, in country.
RowsProduct ==
    {Row(2024, "01", "a", p, "SC", 2, 1) : p \in {"AR", "CN"}}
    \cup {Row(2024, "02", "a", p, "SC", 3, 1) : p \in {"AR", "CN"}}
    \cup {Row(2024, "02", NA, "AR", "SC", 1, 1), Row(2024, NA, "b", "AR", "SC", 2, 2)}

RECURSIVE SetToSeq(_)
SetToSeq(S) ==
    IF S = {} THEN <<>>
    ELSE LET x == CHOOSE x \in S : TRUE IN <<x>> \o SetToSeq(S \ {x})

\* The ways to fill the two files with at most MaxRows records of R, one per
\* multiset of records: what the script shows does not depend on the order
\* of a file's rows.
Fillings(R) ==
    LET tagged == SetToSeq({"exp", "imp"} \X R)
        D == Len(tagged)
        idxs == {s \in UNION {[1..n -> 1..D] : n \in 0..MaxRows} :
                    \A i \in DOMAIN s : \A j \in DOMAIN s : i <= j => s[i] <= s[j]}
        RowsOfFlow(s, flow) ==
            LET Is(i) == tagged[i][1] = flow
                mine == SelectSeq(s, Is)
            IN  [k \in 1..Len(mine) |-> tagged[mine[k]][2]]
    IN  {[exp |-> RowsOfFlow(s, "exp"), imp |-> RowsOfFlow(s, "imp")] : s \in idxs}

FileCols(bom) == IF bom THEN (DataCols \ {"CO_ANO"}) \cup {BomCol} ELSE DataCols

File(bom, rows) == [found |-> TRUE, cols |-> FileCols(bom), rows |-> rows]

Missing == [found |-> FALSE, cols |-> {}, rows |-> <<>>]

\* The values the user moves a slider to.
SliderValues == {n \in {0, 1, SliderDefault} : SliderMin <= n /\ n <= SliderMax}

\* A file that is missing, one without rows, and one of a single record of R
\* written with a byte-order mark.
Special(R) == {Missing, File(FALSE, <<>>), File(TRUE, <<CHOOSE r \in R : TRUE>>)}

\* A session opens on two files of records of R, or on special files; the
\* widgets are at their defaults and the script has not run.
InitFrom(R) ==
    /\ \/ \E f \in Fillings(R) :
            /\ exp_file = File(FALSE, f.exp)
            /\ imp_file = File(FALSE, f.imp)
       \/ /\ exp_file \in Special(R)
          /\ imp_file \in Special(R)
    /\ ms_ufs = [chosen |-> FALSE, ufs |-> {}]
    /\ slider_exp = SliderDefault
    /\ slider_imp = SliderDefault
    /\ reads = 0
    /\ run = NotRun

Init == InitFrom(RowsUF)

InitPrice == InitFrom(RowsPrice)

InitPais == InitFrom(RowsPais)

InitProduct == InitFrom(RowsProduct)

\* ----------------------------------------------------------------- actions

\* The framework executes the script: load_data reads the files again, and
\* every variable of the script is computed anew.
Execute(ms, num_exp, num_imp) ==
    /\ run' = Script(exp_file, imp_file, ms, num_exp, num_imp)
    /\ reads' = Min(reads + 1, MaxReads)
    /\ ms_ufs' = ms
    /\ slider_exp' = num_exp
    /\ slider_imp' = num_imp
    /\ UNCHANGED <<exp_file, imp_file>>

\* The page is opened: the first execution, the widgets at their defaults.
FirstRun ==
    /\ run.status = "new"
    /\ Execute(ms_ufs, slider_exp, slider_imp)

\* The user changes the UF selection to one of the options' subsets.
ChangeUFs ==
    /\ "multiselect" \in run.rendered
    /\ \E S \in SUBSET run.all_ufs :
        /\ S # run.selected_ufs
        /\ Execute([chosen |-> TRUE, ufs |-> S], slider_exp, slider_imp)

\* The user moves the exports slider.
SlideExp ==
    /\ "slider_exp" \in run.rendered
    /\ \E n \in SliderValues \ {slider_exp} : Execute(ms_ufs, n, slider_imp)

\* The user moves the imports slider.
SlideImp ==
    /\ "slider_imp" \in run.rendered
    /\ \E n \in SliderValues \ {slider_imp} : Execute(ms_ufs, slider_exp, n)

Next == FirstRun \/ ChangeUFs \/ SlideExp \/ SlideImp

Spec == Init /\ [][Next]_vars

SpecPrice == InitPrice /\ [][Next]_vars

SpecPais == InitPais /\ [][Next]_vars

SpecProduct == InitProduct /\ [][Next]_vars

\* ---------------------------------------------- what the claims speak about

Flows == {"exp", "imp"}

FileOf(flow) == IF flow = "exp" THEN exp_file ELSE imp_file

SliderOf(flow) == IF flow = "exp" THEN slider_exp ELSE slider_imp

FilteredOf(flow) ==
    IF flow = "exp" THEN run.df_exp_filtered_sc ELSE run.df_imp_filtered_sc

TotalOf(flow) == IF flow = "exp" THEN run.total_exp ELSE run.total_imp

ChartOf(flow) == IF flow = "exp" THEN run.df_chart_exp ELSE run.df_chart_imp

TopProductsOf(flow) ==
    IF flow = "exp" THEN run.top_exp_products ELSE run.top_imp_products

TreemapOf(flow) == IF flow = "exp" THEN run.df_treemap_exp ELSE run.df_treemap_imp

TableOf(flow) == IF flow = "exp" THEN run.top_10_exp ELSE run.top_10_imp

GeralOf(flow) == IF flow = "exp" THEN run.df_exp_geral ELSE run.df_imp_geral

\* The records of a flow's file that the selection of the last execution
\* keeps, in the file's order.
Records(flow) ==
    LET Kept(r) == run.selected_ufs = {} \/ r.SG_UF_NCM \in run.selected_ufs
    IN  SelectSeq(FileOf(flow).rows, Kept)

\* The sum of a column over a list of records.
Sum(rows, col) ==
    LET acc[i \in 0..Len(rows)] == IF i = 0 THEN 0 ELSE acc[i - 1] + rows[i][col]
    IN  acc[Len(rows)]

\* The kept records of a flow, of a year and a country.
RecordsOf(flow, y, p) ==
    LET Is(r) == r.CO_ANO = y /\ r.NO_PAIS = p
    IN  SelectSeq(Records(flow), Is)

\* The kept records of a flow and a year, whatever the country.
RecordsOfYear(flow, y) ==
    LET Is(r) == r.CO_ANO = y
    IN  SelectSeq(Records(flow), Is)

\* The kept records of a flow and a product group.
RecordsOfProduct(flow, k) ==
    LET Is(r) == <<r.CO_NCM, r.NO_NCM_POR>> = k
    IN  SelectSeq(Records(flow), Is)

\* A year has a kept record that names its country.
HasNamed(flow, y) ==
    \E i \in 1..Len(Records(flow)) :
        Records(flow)[i].CO_ANO = y /\ Records(flow)[i].NO_PAIS # NA

\* A fraction is well formed, and lies between two numbers.
FracOk(x) == x.d > 0

FracIn(x, lo, hi) == FracOk(x) /\ lo * x.d <= x.n /\ x.n <= hi * x.d

\* The average price of summed value vl over summed weight kg.
PriceOf(vl, kg) == IF kg > 0 THEN Frac(vl, kg) ELSE FracZero

\* -------------------------------------------------------------------- C1

\* C1: in a displayed comparison table of either flow, for every country row
\* and every reference year that has a price column, the average price equals
\* the country's summed FOB value of the year over its summed net weight of
\* the year when that weight is greater than 0, and 0 when it is 0; no price
\* is a division by zero.
C1_PrecoMedio ==
    \A flow \in Flows :
        LET t == TableOf(flow) IN
        t.status = "displayed" =>
            \A i \in 1..Len(t.rows) : \A y \in t.priced :
                LET of_year == RecordsOf(flow, y, t.rows[i].Pais)
                    vl == Sum(of_year, "VL_FOB")
                    kg == Sum(of_year, "KG_LIQUIDO")
                    preco == t.rows[i].PrecoMedio[y]
                IN  /\ FracOk(preco)
                    /\ IF kg > 0 THEN FracEq(preco, Frac(vl, kg))
                       ELSE preco.n = 0

\* A table shows a country at 1.5 US$/Kg in a year and a country whose
\* records of a year have a value and a weight of 0 at price 0.
C1_Witness ==
    \E flow \in Flows :
        LET t == TableOf(flow) IN
        /\ t.status = "displayed"
        /\ \E i, j \in 1..Len(t.rows) : \E y, z \in t.priced :
            /\ FracEq(t.rows[i].PrecoMedio[y], Frac(3, 2))
            /\ t.rows[j].PrecoMedio[z].n = 0
            /\ Sum(RecordsOf(flow, z, t.rows[j].Pais), "VL_FOB") > 0

\* -------------------------------------------------------------------- C2

\* The variation the claim gives for a country of a flow between two years.
VarOf(flow, base, atual, p) ==
    LET rb == RecordsOf(flow, base, p)
        ra == RecordsOf(flow, atual, p)
        pb == PriceOf(Sum(rb, "VL_FOB"), Sum(rb, "KG_LIQUIDO"))
        pa == PriceOf(Sum(ra, "VL_FOB"), Sum(ra, "KG_LIQUIDO"))
    IN  IF pb.n > 0
        THEN Frac(100 * (pa.n * pb.d - pb.n * pa.d), pa.d * pb.n)
        ELSE FracZero

\* Every row's variation is the claim's.
VarAsClaimed(flow) ==
    LET t == TableOf(flow) IN
    \A i \in 1..Len(t.rows) :
        /\ FracOk(t.rows[i].Var)
        /\ FracEq(t.rows[i].Var,
                  VarOf(flow, t.anos_ref[1], t.anos_ref[2], t.rows[i].Pais))

C3_MissingYear ==
    \A flow \in Flows :
        LET t == TableOf(flow) IN
        (/\ t.status \notin {"none", "no_data"}
         /\ \E y \in Range(t.anos_ref) : Len(RecordsOfYear(flow, y)) > 0)
        => t.status = "displayed"

\* -------------------------------------------------------------------- C4

\* C4 as stated: in a displayed table every country's share is 100 times its
\* summed FOB value of the last reference year over the summed FOB value of
\* all the kept records of that year, those without a country name included,
\* and 0 when that total is 0.
C4_Participacao ==
    \A flow \in Flows :
        LET t == TableOf(flow) IN
        t.status = "displayed" =>
            LET ultimo_ano == t.anos_ref[Len(t.anos_ref)]
                total == Sum(RecordsOfYear(flow, ultimo_ano), "VL_FOB")
            IN  \A i \in 1..Len(t.rows) :
                    LET vl == Sum(RecordsOf(flow, ultimo_ano, t.rows[i].Pais), "VL_FOB")
                        part == t.rows[i].Participacao
                    IN  /\ FracOk(part)
                        /\ IF total > 0 THEN FracEq(part, Frac(100 * vl, total))
                           ELSE part.n = 0

\* -------------------------------------------------------------------- C5

\* What load_data returns for a file: its columns cleaned, its rows.
Returned(file) == [cols |-> {CleanCol(c) : c \in file.cols}, rows |-> file.rows]

\* C5: when an execution that loaded the tables has ended, df_exp and df_imp
\* are what load_data returned, rows, columns and values.
C5_NeverMutated ==
    run.status \in {"done", "error"} =>
        /\ run.df_exp = run.loaded_exp /\ run.df_exp = Returned(exp_file)
        /\ run.df_imp = run.loaded_imp /\ run.df_imp = Returned(imp_file)

\* An execution under a selection of the user ran to its end, its filter
\* left out a record of the exports, and the exports' table was displayed.
C5_Witness ==
    /\ run.status = "done"
    /\ ms_ufs.chosen
    /\ Len(run.df_exp_filtered_sc.rows) < Len(run.df_exp.rows)
    /\ run.top_10_exp.status = "displayed"

\* -------------------------------------------------------------------- C6

\* C6 as stated: in a session, whatever the widget interactions, load_data
\* reads the files at most once.
C6_ReadOnce == reads <= 1

\* -------------------------------------------------------------------- C7

\* Every loaded record has a value and a weight of 0 or more.
LoadedNonNegative ==
    \A flow \in Flows : \A i \in 1..Len(FileOf(flow).rows) :
        FileOf(flow).rows[i].VL_FOB >= 0 /\ FileOf(flow).rows[i].KG_LIQUIDO >= 0

\* The value and the weight of every row of a list are 0 or more.
SumsNonNegative(rows) ==
    \A i \in 1..Len(rows) : rows[i].VL_FOB >= 0 /\ rows[i].KG_LIQUIDO >= 0

\* C7: when no loaded record has a negative value or weight, the totals, the
\* sums of every product group and country group, the average prices and the
\* shares are 0 or more, every share is at most 100, and a price variation
\* is at least -100.
C7_NonNegative ==
    LoadedNonNegative =>
        /\ run.total_exp >= 0
        /\ run.total_imp >= 0
        /\ \A flow \in Flows :
            /\ SumsNonNegative(ChartOf(flow).rows)
            /\ SumsNonNegative(TreemapOf(flow).rows)
            /\ SumsNonNegative(GeralOf(flow).rows)
            /\ \A i \in 1..Len(TreemapOf(flow).rows) :
                FracIn(TreemapOf(flow).rows[i].Participacao, 0, 100)
            /\ LET t == TableOf(flow) IN
               \A i \in 1..Len(t.rows) :
                /\ t.rows[i].ValorFOB >= 0
                /\ t.rows[i].TotalKg >= 0
                /\ \A y \in t.priced :
                    FracOk(t.rows[i].PrecoMedio[y]) /\ t.rows[i].PrecoMedio[y].n >= 0
                /\ FracIn(t.rows[i].Participacao, 0, 100)
                /\ t.has_var =>
                    /\ FracOk(t.rows[i].Var)
                    /\ t.rows[i].Var.n >= -100 * t.rows[i].Var.d

\* The balance is negative, and a table shows a price that fell and a
\* country with a share of the last year's value.
C7_Witness ==
    /\ run.balanca_comercial < 0
    /\ \E flow \in Flows :
        LET t == TableOf(flow) IN
        /\ t.status = "displayed"
        /\ t.has_var
        /\ \E i, j \in 1..Len(t.rows) :
            t.rows[i].Var.n < 0 /\ t.rows[j].Participacao.n > 0

\* -------------------------------------------------------------------- C8

\* The product groups of a flow's kept records.
Groups(flow) ==
    {<<Records(flow)[i].CO_NCM, Records(flow)[i].NO_NCM_POR>> :
        i \in 1..Len(Records(flow))}

\* C8: after the charts of an execution, for a slider at N >= 1 over kept
\* records that are not empty the chart of a flow has min(N, number of
\* product groups) rows, of distinct groups, each with the sums of value and
\* weight of its group's kept records, a missing code or name being a key as
\* any other, and no group left out has a larger sum than a group shown; for
\* N = 0 or no kept record there is no chart and no top product.
C8_TopProducts ==
    run.cards =>
        \A flow \in Flows :
            LET n == SliderOf(flow)
                chart == ChartOf(flow)
                groups == Groups(flow)
                KeyAt(i) == <<chart.rows[i].CO_NCM, chart.rows[i].NO_NCM_POR>>
                shown == {KeyAt(i) : i \in 1..Len(chart.rows)}
            IN  IF n >= 1 /\ groups # {}
                THEN /\ chart.built
                     /\ Len(chart.rows) =
                            (IF n < Cardinality(groups) THEN n ELSE Cardinality(groups))
                     /\ Cardinality(shown) = Len(chart.rows)
                     /\ shown \subseteq groups
                     /\ \A i \in 1..Len(chart.rows) :
                            /\ chart.rows[i].VL_FOB =
                                   Sum(RecordsOfProduct(flow, KeyAt(i)), "VL_FOB")
                            /\ chart.rows[i].KG_LIQUIDO =
                                   Sum(RecordsOfProduct(flow, KeyAt(i)), "KG_LIQUIDO")
                            /\ \A k \in groups \ shown :
                                   Sum(RecordsOfProduct(flow, k), "VL_FOB")
                                       <= chart.rows[i].VL_FOB
                ELSE /\ ~chart.built
                     /\ TopProductsOf(flow) = {}

\* With the slider at 1 the exports' chart shows the one group, of two
\* records, and leaves out a group without a name.
C8_Witness ==
    /\ run.cards
    /\ slider_exp = 1
    /\ Len(run.df_chart_exp.rows) = 1
    /\ Len(RecordsOfProduct("exp", <<run.df_chart_exp.rows[1].CO_NCM,
                                     run.df_chart_exp.rows[1].NO_NCM_POR>>)) = 2
    /\ \E k \in Groups("exp") : k[2] = NA

\* -------------------------------------------------------------------- C9

\* C9: after the filter of an execution, the selection is the user's once
\* the user has chosen; each flow's filtered table is the file's records
\* whose UF is in the selection, in order, or every record when the
\* selection is empty; and the cards' totals, the charts, the treemaps and
\* the tables are sums over exactly those records.
C9_FilterUF ==
    run.cards =>
        /\ ("multiselect" \in run.rendered /\ ms_ufs.chosen)
               => run.selected_ufs = ms_ufs.ufs
        /\ \A flow \in Flows :
            LET rows == FileOf(flow).rows
                Selected(r) == r.SG_UF_NCM \in run.selected_ufs
                expected == IF run.selected_ufs # {} THEN SelectSeq(rows, Selected)
                            ELSE rows
                OfProduct(k) ==
                    LET Is(r) == <<r.CO_NCM, r.NO_NCM_POR>> = k
                    IN  SelectSeq(expected, Is)
                OfTop ==
                    LET Is(r) == r.NO_NCM_POR \in TopProductsOf(flow)
                    IN  SelectSeq(expected, Is)
                OfCell(y, p) ==
                    LET Is(r) == r.CO_ANO = y /\ r.NO_PAIS = p
                    IN  SelectSeq(expected, Is)
                chart == ChartOf(flow)
                t == TableOf(flow)
            IN  /\ FilteredOf(flow).rows = expected
                /\ TotalOf(flow) = Sum(expected, "VL_FOB")
                /\ \A i \in 1..Len(chart.rows) :
                       chart.rows[i].VL_FOB =
                           Sum(OfProduct(<<chart.rows[i].CO_NCM,
                                           chart.rows[i].NO_NCM_POR>>), "VL_FOB")
                /\ TreemapOf(flow).shown =>
                       TreemapOf(flow).total = Sum(OfTop, "VL_FOB")
                /\ GeralOf(flow).shown =>
                       Sum(GeralOf(flow).rows, "VL_FOB") = Sum(expected, "VL_FOB")
                /\ t.status = "displayed" =>
                       \A i \in 1..Len(t.rows) :
                           t.rows[i].ValorFOB =
                               Sum(OfCell(t.anos_ref[Len(t.anos_ref)], t.rows[i].Pais),
                                   "VL_FOB")

\* The user has emptied the selection, the exports have a record without a
\* UF and one with, and the execution kept them all and ran to its end.
C9_Witness ==
    /\ run.status = "done"
    /\ ms_ufs.chosen
    /\ ms_ufs.ufs = {}
    /\ \E i, j \in 1..Len(exp_file.rows) :
        exp_file.rows[i].SG_UF_NCM = NA /\ exp_file.rows[j].SG_UF_NCM = "PR"
    /\ run.df_exp_filtered_sc.rows = exp_file.rows

\* ------------------------------------------------------------------- C10

\* C10: once the cards are displayed, the balance is the exports' total less
\* the imports' total, each total being the sum of VL_FOB over the flow's
\* kept records of every year, and 0 when the flow's filtered table is empty.
C10_Balanca ==
    run.cards =>
        /\ run.balanca_comercial = run.total_exp - run.total_imp
        /\ run.balanca_comercial =
               Sum(Records("exp"), "VL_FOB") - Sum(Records("imp"), "VL_FOB")
        /\ \A flow \in Flows :
               Len(FilteredOf(flow).rows) = 0 => TotalOf(flow) = 0

\* Without export data the cards show a balance of minus the imports' total,
\* which is not 0.
C10_Witness ==
    /\ run.cards
    /\ Len(exp_file.rows) = 0
    /\ run.total_imp > 0
    /\ run.balanca_comercial = 0 - run.total_imp

\* ------------------------------------------------------------------- C11

\* The years of a flow's file, the countries of its kept records (a missing
\* name being one), and a country's kept value and weight of a year.
YearsOf(flow) == {FileOf(flow).rows[i].CO_ANO : i \in 1..Len(FileOf(flow).rows)}

CountriesOf(flow) == {Records(flow)[i].NO_PAIS : i \in 1..Len(Records(flow))}

\* C11 as stated: the reference years of a flow's table are the two largest
\* years of the flow's file (the one year when there is one); a displayed
\* table has at most 10 rows, in the order of non-increasing value of the
\* last reference year; its value and weight columns are the sums of that
\* year alone; and no country left out has a larger value of that year than
\* a country displayed.
C11_Top10 ==
    \A flow \in Flows :
        LET t == TableOf(flow)
            years == YearsOf(flow)
            shown == {t.rows[i].Pais : i \in 1..Len(t.rows)}
        IN  /\ t.status \notin {"none", "no_data"} =>
                /\ Range(t.anos_ref) \subseteq years
                /\ \A y \in years \ Range(t.anos_ref) :
                       \A z \in Range(t.anos_ref) : y < z
                /\ Len(t.anos_ref) = (IF Cardinality(years) < 2 THEN Cardinality(years) ELSE 2)
                /\ \A i, j \in 1..Len(t.anos_ref) : i < j => t.anos_ref[i] < t.anos_ref[j]
            /\ t.status = "displayed" =>
                LET ultimo_ano == t.anos_ref[Len(t.anos_ref)] IN
                /\ Len(t.rows) <= 10
                /\ \A i, j \in 1..Len(t.rows) :
                       i < j => t.rows[i].ValorFOB >= t.rows[j].ValorFOB
                /\ \A i \in 1..Len(t.rows) :
                       /\ t.rows[i].ValorFOB =
                              Sum(RecordsOf(flow, ultimo_ano, t.rows[i].Pais), "VL_FOB")
                       /\ t.rows[i].TotalKg =
                              Sum(RecordsOf(flow, ultimo_ano, t.rows[i].Pais), "KG_LIQUIDO")
                       /\ \A p \in CountriesOf(flow) \ shown :
                              Sum(RecordsOf(flow, ultimo_ano, p), "VL_FOB")
                                  <= t.rows[i].ValorFOB

\* ------------------------------------------------------------------- C12

\* The product groups of the rows of a flow's chart.
ChartGroups(flow) ==
    {<<ChartOf(flow).rows[i].CO_NCM, ChartOf(flow).rows[i].NO_NCM_POR>> :
        i \in 1..Len(ChartOf(flow).rows)}

\* The kept records of a flow whose product group is in the chart.
RecordsOfChart(flow) ==
    LET Is(r) == <<r.CO_NCM, r.NO_NCM_POR>> \in ChartGroups(flow)
    IN  SelectSeq(Records(flow), Is)

\* C12 as stated: once the treemaps of the top products are made, a flow's
\* treemap aggregates exactly the kept records of the product groups of the
\* flow's chart: its countries' values sum to the sum of the chart's rows,
\* its total is the value of those records alone, and when that total is
\* greater than 0 the countries' shares sum to 100.
C12_Treemap ==
    run.status = "done" =>
        \A flow \in Flows :
            LET tm == TreemapOf(flow)
                chart == ChartOf(flow)
                shares == [i \in 1..Len(tm.rows) |->
                              [v |-> tm.rows[i].Participacao.n,
                               d |-> tm.rows[i].Participacao.d]]
            IN  /\ Sum(tm.rows, "VL_FOB") = Sum(chart.rows, "VL_FOB")
                /\ tm.total = Sum(RecordsOfChart(flow), "VL_FOB")
                /\ tm.total > 0 =>
                       /\ tm.shown
                       /\ \A i \in 1..Len(tm.rows) : shares[i].d = tm.total
                       /\ Sum(shares, "v") = 100 * tm.total

\* ------------------------------------------------------------------- C13

\* C13: when an execution has found a file missing, load_data has reported
\* it and stopped the script: the execution rendered no widget, no card and
\* nothing else, left every variable of the script as it was before the
\* execution, and did not reach the outer handler.
C13_FileNotFound ==
    ((~exp_file.found \/ ~imp_file.found) /\ run.status # "new") =>
        /\ run.status = "stopped"
        /\ run.rendered = {}
        /\ ~run.cards
        /\ run = [NotRun EXCEPT !.status = "stopped"]

\* An execution has stopped on a missing export file, the import file being
\* there with a record.
C13_Witness ==
    /\ ~exp_file.found
    /\ imp_file.found
    /\ Len(imp_file.rows) > 0
    /\ run.status = "stopped"
    /\ reads = 1

====
